---------------------------- MODULE Spec2Model ----------------------------
(***************************************************************************)
(* Model of prometheus_notice (src/main.py): the PrometheusMetrics         *)
(* collector, the EmailSender and the PrometheusNotice.run orchestration.  *)
(*                                                                         *)
(* A Python exception is modelled as a result record whose `raised' field  *)
(* is TRUE; whatever the method had already mutated before the exception   *)
(* stays mutated.  Floats are modelled as exact rationals over integers    *)
(* (a percent is a record [num, den] meaning num/den).                     *)
(***************************************************************************)
EXTENDS Integers, Sequences, FiniteSets, TLC

(***************************************************************************)
(* Bounds of the model.                                                    *)
(***************************************************************************)
MaxNodes == 2        \* samples in a discovery response
MaxSamples == 2      \* samples in a per-node query response (direct calls)
MaxAttach == 2       \* attachment paths handed to EmailSender.send

(***************************************************************************)
(* The backend's answers.                                                  *)
(***************************************************************************)
NoLabel == "<absent>"
NodeIds == {"A", "B"}

Min(a, b) == IF a <= b THEN a ELSE b

\* value[1] of a sample: a string that float() parses (numeric) or not
Num(n) == [numeric |-> TRUE, n |-> n]
NonNumeric == [numeric |-> FALSE, n |-> 0]

MkSample(instance, device, mountpoint, value) ==
    [metric |-> [instance |-> instance, device |-> device, mountpoint |-> mountpoint],
     value |-> value]

\* conforming samples of a per-node query
GoodSamples ==
    { MkSample("A", "sda", "/", Num(v)) : v \in {0, 1024} }
      \cup { MkSample("A", "sdb", "/data", Num(v)) : v \in {512, 2048} }

\* a sample whose metric carries no label, and one whose value is no number
UnlabelledSample == MkSample(NoLabel, NoLabel, NoLabel, Num(512))
NonNumericSample == MkSample("A", "sda", "/", NonNumeric)
BadSamples == {UnlabelledSample, NonNumericSample}

\* samples of the discovery query
NodeSamples ==
    { MkSample(i, NoLabel, NoLabel, Num(1)) : i \in NodeIds } \cup {UnlabelledSample}

RECURSIVE SeqsUpTo(_, _)
SeqsUpTo(S, n) ==
    IF n = 0 THEN {<< >>}
    ELSE LET shorter == SeqsUpTo(S, n - 1)
         IN  shorter \cup { Append(s, x) : s \in {t \in shorter : Len(t) = n - 1}, x \in S }

\* a decoded JSON body: data and data.result may be absent
Body(result) == [hasData |-> TRUE, hasResult |-> TRUE, result |-> result]
NoDataBody == [hasData |-> FALSE, hasResult |-> FALSE, result |-> << >>]
NoResultBody == [hasData |-> TRUE, hasResult |-> FALSE, result |-> << >>]
EmptyResult == Body(<< >>)

\* what requests.get / raise_for_status / response.json can do
FailureKinds == {"connection", "timeout", "http_status", "bad_json"}
Failure(kind) == [status |-> kind, body |-> EmptyResult]
Ok(body) == [status |-> "ok", body |-> body]
NoResponse == [status |-> "none", body |-> EmptyResult]

Responses(samples, maxlen) ==
    { Failure(k) : k \in FailureKinds }
      \cup {Ok(NoDataBody), Ok(NoResultBody)}
      \cup { Ok(Body(r)) : r \in SeqsUpTo(samples, maxlen) }

\* answers to a direct call of a collect method
CallResponses == Responses(GoodSamples \cup BadSamples, MaxSamples)
\* answers to the discovery query
NodeResponses == Responses(NodeSamples, MaxNodes)
\* answers to the per-node queries of a whole run: two of the failures, a body
\* without data, no sample, one sample
RunSample == MkSample("A", "sda", "/", Num(1024))
RunResponses ==
    { Failure(k) : k \in {"timeout", "bad_json"} }
      \cup {Ok(NoDataBody), Ok(EmptyResult), Ok(Body(<<RunSample>>))}

Failed(resp) == resp.status \in FailureKinds


(***************************************************************************)
(* PrometheusMetrics: the query client and the formatting helpers.         *)
(***************************************************************************)
\* QueryPrometheus without the except clause: a failure reaches the caller
QueryPrometheusNoCatch(resp) ==
    [raised |-> Failed(resp), body |-> IF Failed(resp) THEN EmptyResult ELSE resp.body]

\* _query_prometheus: every failure of the GET, of raise_for_status or of
\* response.json() is caught and replaced by {"data": {"result": []}}
QueryPrometheus(resp) ==
    [raised |-> FALSE, body |-> IF Failed(resp) THEN EmptyResult ELSE resp.body]

\* result["data"]["result"]: a KeyError when either key is absent
ResultRaises(body) == ~body.hasData \/ ~body.hasResult

\* float(sample["value"][1]): a ValueError when the string is no number
FloatRaises(sample) == ~sample.value.numeric
Float(sample) == sample.value.n

\* "%.2f" of the rational num/den (den > 0), in hundredths, ties to even
Round2(num, den) ==
    LET a == IF num < 0 THEN -num ELSE num
        q == (a * 100) \div den
        r == (a * 100) % den
        up == IF 2 * r > den THEN q + 1
              ELSE IF 2 * r < den THEN q
              ELSE IF q % 2 = 0 THEN q ELSE q + 1
    IN  IF num < 0 THEN -up ELSE up

ByteUnits == <<"B", "KB", "MB", "GB", "TB">>
BitUnits == <<"bps", "Kbps", "Mbps", "Gbps">>

RECURSIVE FormatUnits(_, _, _, _, _, _)
FormatUnits(num, den, units, base, last, i) ==
    IF i > Len(units) THEN [hundredths |-> Round2(num, den), unit |-> last]
    ELSE IF num < base * den THEN [hundredths |-> Round2(num, den), unit |-> units[i]]
    ELSE FormatUnits(num, den * base, units, base, last, i + 1)

\* _format_bytes
FormatBytes(bytes_value) == FormatUnits(bytes_value, 1, ByteUnits, 1024, "PB", 1)
\* _format_bits_per_second
FormatBitsPerSecond(bps) == FormatUnits(bps, 1, BitUnits, 1000, "Tbps", 1)

\* UsagePercent without the guard on the capacity
UsagePercentNoGuard(used_value, capacity) ==
    [num |-> used_value * 100, den |-> capacity]

\* (used_value / capacity * 100) if capacity > 0 else 0
UsagePercent(used_value, capacity) ==
    IF capacity > 0 THEN [num |-> used_value * 100, den |-> capacity]
    ELSE [num |-> 0, den |-> 1]

\* zip(a, b) yields as many pairs as the shorter of the two
PairCount(a, b) == Min(Len(a), Len(b))

\* the outcome of a method: the list it appends to, and whether it raised
Outcome(list, raised) == [list |-> list, raised |-> raised]

(***************************************************************************)
(* get_node_metrics                                                        *)
(***************************************************************************)
\* node["metric"]["instance"]: a KeyError when the label is absent
InstanceRaises(sample) == sample.metric.instance = NoLabel

\* the list comprehension; node_list is assigned only when it completes
GetNodeMetrics(node_list, resp) ==
    LET q == QueryPrometheus(resp)
    IN  IF q.raised \/ ResultRaises(q.body) THEN Outcome(node_list, TRUE)
        ELSE IF \E i \in 1..Len(q.body.result) : InstanceRaises(q.body.result[i])
             THEN Outcome(node_list, TRUE)
        ELSE Outcome([i \in 1..Len(q.body.result) |-> q.body.result[i].metric.instance],
                     FALSE)

(***************************************************************************)
(* get_disk_metrics                                                        *)
(***************************************************************************)
\* DiskRecord with the labels taken from the sample of the second query
DiskRecordFreeLabels(instance, size, free) ==
    LET size_value == Float(size)
        free_value == Float(free)
        used_value == size_value - free_value
    IN  [device |-> free.metric.device,
         usage_percent |-> UsagePercent(used_value, size_value),
         instance |-> instance,
         mount_point |-> free.metric.mountpoint,
         size |-> FormatBytes(size_value),
         free |-> FormatBytes(free_value),
         used |-> FormatBytes(used_value)]

DiskRecord(instance, size, free) ==
    LET size_value == Float(size)
        free_value == Float(free)
        used_value == size_value - free_value
    IN  [device |-> size.metric.device,
         usage_percent |-> UsagePercent(used_value, size_value),
         instance |-> instance,
         mount_point |-> size.metric.mountpoint,
         size |-> FormatBytes(size_value),
         free |-> FormatBytes(free_value),
         used |-> FormatBytes(used_value)]

DiskPairRaises(size, free) ==
    FloatRaises(size) \/ FloatRaises(free)
      \/ size.metric.device = NoLabel \/ size.metric.mountpoint = NoLabel

RECURSIVE DiskLoop(_, _, _, _, _)
DiskLoop(list, instance, sizes, frees, i) ==
    IF i > PairCount(sizes, frees) THEN Outcome(list, FALSE)
    ELSE IF DiskPairRaises(sizes[i], frees[i]) THEN Outcome(list, TRUE)
    ELSE DiskLoop(Append(list, DiskRecord(instance, sizes[i], frees[i])),
                  instance, sizes, frees, i + 1)

GetDiskMetrics(list, instance, resp_size, resp_free) ==
    LET result_size == QueryPrometheus(resp_size)
        result_free == QueryPrometheus(resp_free)
    IN  IF result_size.raised \/ result_free.raised THEN Outcome(list, TRUE)
        ELSE IF ResultRaises(result_size.body) \/ ResultRaises(result_free.body)
             THEN Outcome(list, TRUE)
        ELSE DiskLoop(list, instance, result_size.body.result, result_free.body.result, 1)

(***************************************************************************)
(* get_cpu_metrics                                                         *)
(***************************************************************************)
CpuRecord(instance, usage_percent, core_num) ==
    [instance |-> instance,
     usage_percent |-> Float(usage_percent),
     core_num |-> Float(core_num)]

CpuPairRaises(usage_percent, core_num) ==
    FloatRaises(usage_percent) \/ FloatRaises(core_num)

RECURSIVE CpuLoop(_, _, _, _, _)
CpuLoop(list, instance, usages, cores, i) ==
    IF i > PairCount(usages, cores) THEN Outcome(list, FALSE)
    ELSE IF CpuPairRaises(usages[i], cores[i]) THEN Outcome(list, TRUE)
    ELSE CpuLoop(Append(list, CpuRecord(instance, usages[i], cores[i])),
                 instance, usages, cores, i + 1)

GetCpuMetrics(list, instance, resp_usage, resp_cores) ==
    LET result_usage_percent == QueryPrometheus(resp_usage)
        result_core_num == QueryPrometheus(resp_cores)
    IN  IF result_usage_percent.raised \/ result_core_num.raised THEN Outcome(list, TRUE)
        ELSE IF ResultRaises(result_usage_percent.body) \/ ResultRaises(result_core_num.body)
             THEN Outcome(list, TRUE)
        ELSE CpuLoop(list, instance, result_usage_percent.body.result,
                     result_core_num.body.result, 1)

(***************************************************************************)
(* get_mem_metrics                                                         *)
(***************************************************************************)
MemRecord(instance, total, avail) ==
    LET total_value == Float(total)
        used_value == total_value - Float(avail)
    IN  [instance |-> instance,
         total |-> FormatBytes(total_value),
         used |-> FormatBytes(used_value),
         usage_percent |-> UsagePercent(used_value, total_value)]

MemPairRaises(total, avail) == FloatRaises(total) \/ FloatRaises(avail)

RECURSIVE MemLoop(_, _, _, _, _)
MemLoop(list, instance, totals, avails, i) ==
    IF i > PairCount(totals, avails) THEN Outcome(list, FALSE)
    ELSE IF MemPairRaises(totals[i], avails[i]) THEN Outcome(list, TRUE)
    ELSE MemLoop(Append(list, MemRecord(instance, totals[i], avails[i])),
                 instance, totals, avails, i + 1)

GetMemMetrics(list, instance, resp_total, resp_avail) ==
    LET result_total == QueryPrometheus(resp_total)
        result_avail == QueryPrometheus(resp_avail)
    IN  IF result_total.raised \/ result_avail.raised THEN Outcome(list, TRUE)
        ELSE IF ResultRaises(result_total.body) \/ ResultRaises(result_avail.body)
             THEN Outcome(list, TRUE)
        ELSE MemLoop(list, instance, result_total.body.result, result_avail.body.result, 1)

(***************************************************************************)
(* get_net_metrics                                                         *)
(***************************************************************************)
NetRecord(instance, rx, tx) ==
    [instance |-> instance,
     download |-> FormatBitsPerSecond(Float(rx)),
     upload |-> FormatBitsPerSecond(Float(tx))]

NetPairRaises(rx, tx) == FloatRaises(rx) \/ FloatRaises(tx)

RECURSIVE NetLoop(_, _, _, _, _)
NetLoop(list, instance, rxs, txs, i) ==
    IF i > PairCount(rxs, txs) THEN Outcome(list, FALSE)
    ELSE IF NetPairRaises(rxs[i], txs[i]) THEN Outcome(list, TRUE)
    ELSE NetLoop(Append(list, NetRecord(instance, rxs[i], txs[i])),
                 instance, rxs, txs, i + 1)

GetNetMetrics(list, instance, resp_rx, resp_tx) ==
    LET result_rx == QueryPrometheus(resp_rx)
        result_tx == QueryPrometheus(resp_tx)
    IN  IF result_rx.raised \/ result_tx.raised THEN Outcome(list, TRUE)
        ELSE IF ResultRaises(result_rx.body) \/ ResultRaises(result_tx.body)
             THEN Outcome(list, TRUE)
        ELSE NetLoop(list, instance, result_rx.body.result, result_tx.body.result, 1)

(***************************************************************************)
(* EmailSender                                                             *)
(***************************************************************************)
ReportPath == "report.xlsx"
Paths == {ReportPath, "extra.bin", "gone.bin"}

\* EmailConfig: the recipients are a list of strings, or something that
\* ", ".join cannot join
GoodConfig == [username |-> "bot@example.org", recipients |-> <<"ops", "dev">>,
               joinable |-> TRUE, subject |-> "report"]
BadConfig == [GoodConfig EXCEPT !.joinable = FALSE]
Configs == {GoodConfig, BadConfig}

NoMessage == [to |-> << >>, subject |-> "", parts |-> << >>]

\* _create_message: headers, then the body as the first part
CreateMessageRaises(cfg) == ~cfg.joinable
CreateMessage(cfg, subject, body, html) ==
    [to |-> cfg.recipients,
     subject |-> subject,
     parts |-> << [kind |-> IF html THEN "html" ELSE "plain", content |-> body] >>]

AttachmentPart(file_path) == [kind |-> "attachment", content |-> file_path]

\* AddAttachments with the try around the whole loop: the first path whose
\* read raises ends the loop
RECURSIVE AddAttachmentsAbort(_, _, _, _)
AddAttachmentsAbort(message, attachments, readable, i) ==
    IF i > Len(attachments) THEN message
    ELSE IF attachments[i] \in readable
         THEN AddAttachmentsAbort([message EXCEPT !.parts = Append(@, AttachmentPart(attachments[i]))],
                                  attachments, readable, i + 1)
    ELSE message

\* _add_attachments: a path whose read raises is logged and skipped
RECURSIVE AddAttachments(_, _, _, _)
AddAttachments(message, attachments, readable, i) ==
    IF i > Len(attachments) THEN message
    ELSE IF attachments[i] \in readable
         THEN AddAttachments([message EXCEPT !.parts = Append(@, AttachmentPart(attachments[i]))],
                             attachments, readable, i + 1)
    ELSE AddAttachments(message, attachments, readable, i + 1)

\* where an SMTP session can fail: the connection, STARTTLS, login,
\* message.as_string(), sendmail, or the QUIT issued on leaving the with block
SmtpFaults == {"none", "connect", "starttls", "login", "as_string", "sendmail", "quit"}

\* SmtpCommands with the outcome of STARTTLS ignored
SmtpCommandsTlsIgnored(fault) ==
    IF fault = "connect" THEN <<"connect">>
    ELSE <<"connect", "starttls", "login">>
           \o (IF fault \in {"login", "as_string"} THEN << >> ELSE <<"sendmail">>)
           \o <<"quit">>

\* the commands a session issues, up to and including the one that fails;
\* leaving the with block issues QUIT once the connection was open
SmtpCommands(fault) ==
    IF fault = "connect" THEN <<"connect">>
    ELSE <<"connect", "starttls">>
           \o (IF fault = "starttls" THEN << >>
               ELSE <<"login">>
                      \o (IF fault \in {"login", "as_string"} THEN << >> ELSE <<"sendmail">>))
           \o <<"quit">>

\* _send_message: True when nothing raised, False otherwise; the server has
\* accepted the message when sendmail returned
SendMessage(cfg, message, fault) ==
    [result |-> fault = "none",
     raised |-> FALSE,
     log |-> SmtpCommands(fault),
     outbox |-> IF fault \in {"none", "quit"}
                THEN << [from |-> cfg.username, to |-> cfg.recipients, message |-> message] >>
                ELSE << >>]

\* Send without the except clause: an exception of _create_message reaches
\* the caller
SendNoCatch(cfg, subject, body, html, attachments, readable, fault) ==
    IF CreateMessageRaises(cfg)
    THEN [result |-> FALSE, raised |-> TRUE, message |-> NoMessage,
          log |-> << >>, outbox |-> << >>]
    ELSE LET message == AddAttachments(CreateMessage(cfg, subject, body, html),
                                       attachments, readable, 1)
             sent == SendMessage(cfg, message, fault)
         IN  [result |-> sent.result, raised |-> sent.raised, message |-> message,
              log |-> sent.log, outbox |-> sent.outbox]

\* send: any exception of the three calls is caught and turned into False
Send(cfg, subject, body, html, attachments, readable, fault) ==
    IF CreateMessageRaises(cfg)
    THEN [result |-> FALSE, raised |-> FALSE, message |-> NoMessage,
          log |-> << >>, outbox |-> << >>]
    ELSE LET message == AddAttachments(CreateMessage(cfg, subject, body, html),
                                       attachments, readable, 1)
             sent == SendMessage(cfg, message, fault)
         IN  [result |-> IF sent.raised THEN FALSE ELSE sent.result,
              raised |-> FALSE,
              message |-> message,
              log |-> sent.log,
              outbox |-> sent.outbox]

(***************************************************************************)
(* State.                                                                  *)
(***************************************************************************)
VARIABLES
    node_list, disk_list, cpu_list, mem_list, net_list,  \* PrometheusMetrics
    pc, idx,          \* the step about to run, and the loop index of run
    trace,            \* the operations performed so far, in order
    nqueries,         \* HTTP GETs issued so far
    q1, q2,           \* the responses the last operation received
    inst,             \* the instance argument of the last collect operation
    exc,              \* the exception an operation raised, and where it went
    xlsx,             \* the sheets of report.xlsx
    html_report,      \* the rendered body
    fs,               \* the paths open() can read
    config,           \* EmailConfig
    message,          \* the message send built
    smtp_log,         \* SMTP commands issued
    outbox,           \* messages the server accepted
    send_result,      \* what send returned: "none" before it returns
    fault,            \* where the SMTP session of the last send failed
    att_arg           \* the attachments argument of the last send

metrics == <<node_list, disk_list, cpu_list, mem_list, net_list>>
mail == <<message, smtp_log, outbox, send_result, fault, att_arg>>
vars == <<node_list, disk_list, cpu_list, mem_list, net_list, pc, idx, trace, nqueries,
          q1, q2, inst, exc, xlsx, html_report, fs, config, message, smtp_log, outbox,
          send_result, fault, att_arg>>

NoException == [at |-> "none", state |-> "none"]
NoFile == [written |-> FALSE, disk |-> << >>, cpu |-> << >>, mem |-> << >>, net |-> << >>]
NoReport == [rendered |-> FALSE, nodes |-> << >>, disks |-> << >>, cpus |-> << >>,
             mems |-> << >>, nets |-> << >>]

Op(step, i) == [op |-> step, i |-> i]
\* an entry of the trace: the operation, the loop index and the instance argument
Entry(step, i, instance) == [op |-> step, i |-> i, node |-> instance]

\* PrometheusMetrics.__init__: the five lists are empty
EmptyLists ==
    /\ node_list = << >> /\ disk_list = << >> /\ cpu_list = << >>
    /\ mem_list = << >> /\ net_list = << >>

\* nothing has run yet: no operation, no query, no exception, no file, no mail
NothingDone ==
    /\ idx = 0 /\ trace = << >> /\ nqueries = 0
    /\ q1 = NoResponse /\ q2 = NoResponse /\ inst = NoLabel
    /\ exc = NoException
    /\ xlsx = NoFile /\ html_report = NoReport
    /\ message = NoMessage /\ smtp_log = << >> /\ outbox = << >>
    /\ send_result = "none" /\ fault = "none" /\ att_arg = << >>

(***************************************************************************)
(* PrometheusNotice.run                                                    *)
(***************************************************************************)
\* NextStep with the CPU collection called before the disk collection
NextStepCpuFirst(step, i, n) ==
    CASE step = "discover" -> IF n >= 1 THEN Op("cpu", 1) ELSE Op("excel", 0)
      [] step = "cpu" -> Op("disk", i)
      [] step = "disk" -> Op("mem", i)
      [] step = "mem" -> Op("net", i)
      [] step = "net" -> IF i < n THEN Op("cpu", i + 1) ELSE Op("excel", 0)
      [] step = "excel" -> Op("html", 0)
      [] step = "html" -> Op("send", 0)
      [] OTHER -> Op("done", 0)

\* NextStep with an early return when no node was discovered
NextStepStopWhenEmpty(step, i, n) ==
    CASE step = "discover" -> IF n >= 1 THEN Op("disk", 1) ELSE Op("done", 0)
      [] step = "disk" -> Op("cpu", i)
      [] step = "cpu" -> Op("mem", i)
      [] step = "mem" -> Op("net", i)
      [] step = "net" -> IF i < n THEN Op("disk", i + 1) ELSE Op("excel", 0)
      [] step = "excel" -> Op("html", 0)
      [] step = "html" -> Op("send", 0)
      [] OTHER -> Op("done", 0)

\* the statement that follows `step' in the try block, n nodes discovered
NextStep(step, i, n) ==
    CASE step = "discover" -> IF n >= 1 THEN Op("disk", 1) ELSE Op("excel", 0)
      [] step = "disk" -> Op("cpu", i)
      [] step = "cpu" -> Op("mem", i)
      [] step = "mem" -> Op("net", i)
      [] step = "net" -> IF i < n THEN Op("disk", i + 1) ELSE Op("excel", 0)
      [] step = "excel" -> Op("html", 0)
      [] step = "html" -> Op("send", 0)
      [] OTHER -> Op("done", 0)

\* RunExcept with a `raise' after the log line
RunExceptReraise(step) == [at |-> step, state |-> "escaped"]

\* except Exception: log, and run returns
RunExcept(step) == [at |-> step, state |-> "caught"]

\* leave `step': on to the next statement, or to the except clause
Advance(step, raised, n) ==
    /\ trace' = Append(trace, Entry(step, idx, inst'))
    /\ IF raised
       THEN pc' = "done" /\ idx' = idx /\ exc' = RunExcept(step)
       ELSE pc' = NextStep(step, idx, n).op /\ idx' = NextStep(step, idx, n).i
            /\ exc' = exc

Received(r1, r2, n, instance) ==
    q1' = r1 /\ q2' = r2 /\ nqueries' = nqueries + n /\ inst' = instance

RunGetNodeMetrics ==
    /\ pc = "discover"
    /\ \E resp \in NodeResponses :
         LET o == GetNodeMetrics(node_list, resp)
         IN  /\ node_list' = o.list
             /\ Received(resp, NoResponse, 1, NoLabel)
             /\ Advance("discover", o.raised, Len(o.list))
    /\ UNCHANGED <<disk_list, cpu_list, mem_list, net_list, xlsx, html_report, fs, config, mail>>

RunGetDiskMetrics ==
    /\ pc = "disk"
    /\ \E r1 \in RunResponses, r2 \in RunResponses :
         LET o == GetDiskMetrics(disk_list, node_list[idx], r1, r2)
         IN  /\ disk_list' = o.list
             /\ Received(r1, r2, 2, node_list[idx])
             /\ Advance("disk", o.raised, Len(node_list))
    /\ UNCHANGED <<node_list, cpu_list, mem_list, net_list, xlsx, html_report, fs, config, mail>>

RunGetCpuMetrics ==
    /\ pc = "cpu"
    /\ \E r1 \in RunResponses, r2 \in RunResponses :
         LET o == GetCpuMetrics(cpu_list, node_list[idx], r1, r2)
         IN  /\ cpu_list' = o.list
             /\ Received(r1, r2, 2, node_list[idx])
             /\ Advance("cpu", o.raised, Len(node_list))
    /\ UNCHANGED <<node_list, disk_list, mem_list, net_list, xlsx, html_report, fs, config, mail>>

RunGetMemMetrics ==
    /\ pc = "mem"
    /\ \E r1 \in RunResponses, r2 \in RunResponses :
         LET o == GetMemMetrics(mem_list, node_list[idx], r1, r2)
         IN  /\ mem_list' = o.list
             /\ Received(r1, r2, 2, node_list[idx])
             /\ Advance("mem", o.raised, Len(node_list))
    /\ UNCHANGED <<node_list, disk_list, cpu_list, net_list, xlsx, html_report, fs, config, mail>>

RunGetNetMetrics ==
    /\ pc = "net"
    /\ \E r1 \in RunResponses, r2 \in RunResponses :
         LET o == GetNetMetrics(net_list, node_list[idx], r1, r2)
         IN  /\ net_list' = o.list
             /\ Received(r1, r2, 2, node_list[idx])
             /\ Advance("net", o.raised, Len(node_list))
    /\ UNCHANGED <<node_list, disk_list, cpu_list, mem_list, xlsx, html_report, fs, config, mail>>

\* generate_excel_report: four sheets, one per list; the writer can raise
\* (the file cannot be written), and then nothing of the model changes
ExcelSheets == [written |-> TRUE, disk |-> disk_list, cpu |-> cpu_list,
                mem |-> mem_list, net |-> net_list]

RunGenerateExcelReport ==
    /\ pc = "excel"
    /\ \E ok \in BOOLEAN :
         /\ xlsx' = IF ok THEN ExcelSheets ELSE xlsx
         /\ fs' = IF ok THEN fs \cup {ReportPath} ELSE fs
         /\ Received(NoResponse, NoResponse, 0, NoLabel)
         /\ Advance("excel", ~ok, Len(node_list))
    /\ UNCHANGED <<metrics, html_report, config, mail>>

\* generate_html_report: the template is given the five lists; get_template
\* or render can raise
RenderHtml == [rendered |-> TRUE, nodes |-> node_list, disks |-> disk_list,
               cpus |-> cpu_list, mems |-> mem_list, nets |-> net_list]

RunGenerateHtmlReport ==
    /\ pc = "html"
    /\ \E ok \in BOOLEAN :
         /\ html_report' = IF ok THEN RenderHtml ELSE html_report
         /\ Received(NoResponse, NoResponse, 0, NoLabel)
         /\ Advance("html", ~ok, Len(node_list))
    /\ UNCHANGED <<metrics, xlsx, fs, config, mail>>

\* the effect of one call of EmailSender.send on the mail state
Sent(o, attachments, f) ==
    /\ message' = o.message
    /\ smtp_log' = smtp_log \o o.log
    /\ outbox' = outbox \o o.outbox
    /\ send_result' = IF o.raised THEN "raised" ELSE IF o.result THEN "True" ELSE "False"
    /\ fault' = f
    /\ att_arg' = attachments

RunSend ==
    /\ pc = "send"
    /\ \E f \in SmtpFaults :
         LET o == Send(config, config.subject, html_report, TRUE, <<ReportPath>>, fs, f)
         IN  /\ Sent(o, <<ReportPath>>, f)
             /\ Received(NoResponse, NoResponse, 0, NoLabel)
             /\ Advance("send", o.raised, Len(node_list))
    /\ UNCHANGED <<metrics, xlsx, html_report, fs, config>>

InitRun ==
    /\ EmptyLists
    /\ NothingDone
    /\ pc = "discover"
    /\ fs = {}
    /\ config = GoodConfig

NextRun ==
    \/ RunGetNodeMetrics
    \/ RunGetDiskMetrics
    \/ RunGetCpuMetrics
    \/ RunGetMemMetrics
    \/ RunGetNetMetrics
    \/ RunGenerateExcelReport
    \/ RunGenerateHtmlReport
    \/ RunSend

\* one run of PrometheusNotice.run
Spec == InitRun /\ [][NextRun]_vars

(***************************************************************************)
(* Direct calls of the PrometheusMetrics methods: one call on a collector  *)
(* whose lists are empty or already hold the records of an earlier node.   *)
(***************************************************************************)
\* an exception of a direct call reaches the caller
CallRaise(step) == [at |-> step, state |-> "escaped"]

Returned(step, raised) ==
    /\ pc' = "returned"
    /\ idx' = idx
    /\ trace' = Append(trace, Entry(step, 0, inst'))
    /\ exc' = IF raised THEN CallRaise(step) ELSE exc

EarlierSample == MkSample("B", "sdb", "/data", Num(512))

\* the lists after the collections of an earlier node appended one record each
EarlierLists ==
    /\ node_list = <<"B", "A">>
    /\ disk_list = <<DiskRecord("B", EarlierSample, EarlierSample)>>
    /\ cpu_list = <<CpuRecord("B", EarlierSample, EarlierSample)>>
    /\ mem_list = <<MemRecord("B", EarlierSample, EarlierSample)>>
    /\ net_list = <<NetRecord("B", EarlierSample, EarlierSample)>>

InitCall ==
    /\ EmptyLists \/ EarlierLists
    /\ NothingDone
    /\ pc = "idle"
    /\ fs = {}
    /\ config = GoodConfig

CallGetNodeMetrics ==
    /\ pc = "idle"
    /\ \E resp \in NodeResponses :
         LET o == GetNodeMetrics(node_list, resp)
         IN  /\ node_list' = o.list
             /\ Received(resp, NoResponse, 1, NoLabel)
             /\ Returned("discover", o.raised)
    /\ UNCHANGED <<disk_list, cpu_list, mem_list, net_list, xlsx, html_report, fs, config, mail>>

CallGetDiskMetrics ==
    /\ pc = "idle"
    /\ \E instance \in NodeIds, r1 \in CallResponses, r2 \in CallResponses :
         LET o == GetDiskMetrics(disk_list, instance, r1, r2)
         IN  /\ disk_list' = o.list
             /\ Received(r1, r2, 2, instance)
             /\ Returned("disk", o.raised)
    /\ UNCHANGED <<node_list, cpu_list, mem_list, net_list, xlsx, html_report, fs, config, mail>>

CallGetCpuMetrics ==
    /\ pc = "idle"
    /\ \E instance \in NodeIds, r1 \in CallResponses, r2 \in CallResponses :
         LET o == GetCpuMetrics(cpu_list, instance, r1, r2)
         IN  /\ cpu_list' = o.list
             /\ Received(r1, r2, 2, instance)
             /\ Returned("cpu", o.raised)
    /\ UNCHANGED <<node_list, disk_list, mem_list, net_list, xlsx, html_report, fs, config, mail>>

CallGetMemMetrics ==
    /\ pc = "idle"
    /\ \E instance \in NodeIds, r1 \in CallResponses, r2 \in CallResponses :
         LET o == GetMemMetrics(mem_list, instance, r1, r2)
         IN  /\ mem_list' = o.list
             /\ Received(r1, r2, 2, instance)
             /\ Returned("mem", o.raised)
    /\ UNCHANGED <<node_list, disk_list, cpu_list, net_list, xlsx, html_report, fs, config, mail>>

CallGetNetMetrics ==
    /\ pc = "idle"
    /\ \E instance \in NodeIds, r1 \in CallResponses, r2 \in CallResponses :
         LET o == GetNetMetrics(net_list, instance, r1, r2)
         IN  /\ net_list' = o.list
             /\ Received(r1, r2, 2, instance)
             /\ Returned("net", o.raised)
    /\ UNCHANGED <<node_list, disk_list, cpu_list, mem_list, xlsx, html_report, fs, config, mail>>

NextCall ==
    \/ CallGetNodeMetrics
    \/ CallGetDiskMetrics
    \/ CallGetCpuMetrics
    \/ CallGetMemMetrics
    \/ CallGetNetMetrics

\* one call of one collector method
SpecCall == InitCall /\ [][NextCall]_vars

(***************************************************************************)
(* Direct calls of EmailSender.send.                                       *)
(***************************************************************************)
InitSend ==
    /\ EmptyLists
    /\ NothingDone
    /\ pc = "idle"
    /\ fs \in SUBSET Paths
    /\ config \in Configs

CallSend ==
    /\ pc = "idle"
    /\ \E attachments \in SeqsUpTo(Paths, MaxAttach), html \in BOOLEAN, f \in SmtpFaults :
         LET o == Send(config, config.subject, html_report, html, attachments, fs, f)
         IN  /\ Sent(o, attachments, f)
             /\ Received(NoResponse, NoResponse, 0, NoLabel)
             /\ Returned("send", o.raised)
    /\ UNCHANGED <<metrics, xlsx, html_report, fs, config>>

NextSend == CallSend

\* one call of EmailSender.send
SpecSend == InitSend /\ [][NextSend]_vars

(***************************************************************************)
(* Properties of PrometheusNotice.run (checked under Spec).                *)
(***************************************************************************)
CollectSteps == {"disk", "cpu", "mem", "net"}
PreSendSteps == {"discover"} \cup CollectSteps \cup {"excel", "html"}

IsPrefix(a, b) == Len(a) <= Len(b) /\ \A i \in 1..Len(a) : a[i] = b[i]

RECURSIVE NodeOps(_, _)
NodeOps(nodes, i) ==
    IF i > Len(nodes) THEN << >>
    ELSE << Entry("disk", i, nodes[i]), Entry("cpu", i, nodes[i]),
            Entry("mem", i, nodes[i]), Entry("net", i, nodes[i]) >> \o NodeOps(nodes, i + 1)

\* the operations of a run that discovered `nodes' and in which nothing raised
ExpectedTrace(nodes) ==
    << Entry("discover", 0, NoLabel) >> \o NodeOps(nodes, 1)
      \o << Entry("excel", 0, NoLabel), Entry("html", 0, NoLabel), Entry("send", 0, NoLabel) >>

\* the queries the operations of a trace issue: one for discovery, two per collection
RECURSIVE QueriesOf(_)
QueriesOf(t) ==
    IF t = << >> THEN 0
    ELSE (IF Head(t).op = "discover" THEN 1 ELSE IF Head(t).op \in CollectSteps THEN 2 ELSE 0)
           + QueriesOf(Tail(t))

Count(log, cmd) == Cardinality({i \in 1..Len(log) : log[i] = cmd})

\* C1: the operations of a run happen in the order discovery, then disk, cpu,
\* memory, network for each discovered node in discovery order, then the
\* spreadsheet write, the render and the send; each is performed once and
\* issues its queries once (one for discovery, two per collection), also after
\* a failed query; a run in which nothing raised performs all of them and
\* opens one SMTP session.
C1_RunOrder ==
    /\ IsPrefix(trace, ExpectedTrace(node_list))
    /\ nqueries = QueriesOf(trace)
    /\ (pc = "done" /\ exc.state = "none") =>
          /\ trace = ExpectedTrace(node_list)
          /\ nqueries = 1 + 8 * Len(node_list)
          /\ xlsx.written /\ html_report.rendered
          /\ send_result \in {"True", "False"}
          /\ Count(smtp_log, "connect") = 1
          /\ Count(smtp_log, "sendmail") <= 1

\* a run over two different nodes ends without an exception, one disk
\* collection having appended nothing
C1_Witness ==
    /\ pc = "done" /\ exc.state = "none"
    /\ Len(node_list) = 2 /\ node_list[1] # node_list[2]
    /\ Len(disk_list) = 1 /\ Len(net_list) = 2
    /\ send_result = "True"

\* C6: when a step before the send raises, run catches the exception and
\* returns: the raising step is the last operation performed, no later step
\* ran (nothing written or rendered after it), send was not invoked (no SMTP
\* command, no return value) and the exception does not reach the caller.
C6_RaiseEndsRunWithoutSend ==
    exc.at \in PreSendSteps =>
        /\ exc.state = "caught"
        /\ pc = "done"
        /\ trace # << >> /\ trace[Len(trace)].op = exc.at
        /\ \A i \in 1..Len(trace) : trace[i].op # "send"
        /\ send_result = "none" /\ smtp_log = << >> /\ outbox = << >> /\ message = NoMessage
        /\ (exc.at # "html") => ~xlsx.written
        /\ ~html_report.rendered

\* the render raised after the spreadsheet was written
C6_Witness ==
    /\ exc.at = "html" /\ xlsx.written /\ pc = "done"
    /\ Len(node_list) = 1 /\ Len(cpu_list) = 1

\* C8: when discovery yields no node (also when its query failed), no
\* per-node query is issued, the four lists stay empty, and the run goes on
\* to the spreadsheet write, the render and the send: it ends in the except
\* clause only if the write or the render itself raises.
C8_NoNodes ==
    (trace # << >> /\ exc.at # "discover" /\ node_list = << >>) =>
        /\ nqueries = 1
        /\ disk_list = << >> /\ cpu_list = << >> /\ mem_list = << >> /\ net_list = << >>
        /\ \A i \in 1..Len(trace) : trace[i].op \notin CollectSteps
        /\ pc \in {"excel", "html", "send", "done"}
        /\ Len(trace) = 1 => pc = "excel"
        /\ pc = "done" =>
              \/ exc.at \in {"excel", "html"}
              \/ /\ exc.state = "none"
                 /\ xlsx = [written |-> TRUE, disk |-> << >>, cpu |-> << >>,
                            mem |-> << >>, net |-> << >>]
                 /\ html_report.rendered
                 /\ send_result \in {"True", "False"}
                 /\ Count(smtp_log, "connect") = 1

\* a run that discovered nothing wrote the empty sheets and sent the email
C8_Witness ==
    /\ pc = "done" /\ node_list = << >> /\ nqueries = 1
    /\ xlsx.written /\ xlsx.disk = << >>
    /\ html_report.rendered /\ send_result = "True" /\ Len(outbox) = 1

\* the steps that can follow a collection that returned
Follows(step) ==
    CASE step = "disk" -> {"cpu"}
      [] step = "cpu" -> {"mem"}
      [] step = "mem" -> {"net"}
      [] OTHER -> {"disk", "excel"}

\* a response that was decoded and whose body has data.result
WellFormed(resp) == resp.status = "ok" /\ resp.body.hasData /\ resp.body.hasResult

\* C2: when a query of a collection fails (any of the failure kinds),
\* _query_prometheus raises nothing and returns the empty result, the
\* collection appends nothing: its own list, the three other lists and the
\* node list are unchanged; and, the other response being a failure too or a
\* body with data.result, nothing is raised and the run is at the next step.
C2_FailedQueryAppendsNothing ==
    [][ (pc \in CollectSteps /\ (Failed(q1') \/ Failed(q2'))) =>
          /\ \A r \in {q1', q2'} :
               Failed(r) => QueryPrometheus(r) = [raised |-> FALSE, body |-> EmptyResult]
          /\ UNCHANGED <<node_list, disk_list, cpu_list, mem_list, net_list>>
          /\ (\A r \in {q1', q2'} : Failed(r) \/ WellFormed(r)) =>
                /\ exc' = NoException
                /\ pc' \in Follows(pc)
     ]_vars

\* the second node's disk collection: the size query failed, the free query
\* returned a sample, nothing was appended and the run is at the CPU step
C2_Witness ==
    /\ pc = "cpu" /\ idx = 2 /\ exc.state = "none"
    /\ Failed(q1) /\ WellFormed(q2) /\ q2.body.result # << >>
    /\ Len(disk_list) = 1 /\ Len(cpu_list) = 1

\* a decoded body that is not {data: {result: [{metric, value}, ...]}}: data
\* or result absent, a sample without the instance label, a value that is no
\* number
NonConforming(resp) ==
    /\ resp.status = "ok"
    /\ \/ ~resp.body.hasData
       \/ ~resp.body.hasResult
       \/ \E i \in 1..Len(resp.body.result) :
            \/ resp.body.result[i].metric.instance = NoLabel
            \/ ~resp.body.result[i].value.numeric

\* C3 (as claimed): a non-conforming response is treated as the empty result:
\* the operation that received it raises nothing and the run goes on.
C3_NonConformingTreatedAsEmpty ==
    (NonConforming(q1) \/ NonConforming(q2)) => (exc.state = "none" /\ pc # "done")

(***************************************************************************)
(* Properties of EmailSender.send (checked under SpecSend).                *)
(***************************************************************************)
Mem(log, cmd) == \E i \in 1..Len(log) : log[i] = cmd

SendReturned == send_result # "none"
SomeAttachmentUnreadable == \E i \in 1..Len(att_arg) : att_arg[i] \notin fs

\* the submission completed: sendmail was issued and the server holds the message
Submitted ==
    /\ Mem(smtp_log, "sendmail")
    /\ outbox = << [from |-> config.username, to |-> config.recipients, message |-> message] >>

\* C4 (as claimed): send never raises; every failure in message
\* construction, attachment handling, connection, TLS upgrade, login or
\* submission makes it return False; True only after a completed submission.
C4_EveryFailureReturnsFalse ==
    SendReturned =>
        /\ send_result \in {"True", "False"}
        /\ (~config.joinable \/ SomeAttachmentUnreadable \/ fault # "none")
              => send_result = "False"
        /\ send_result = "True" => Submitted

\* C4 (amended): send never raises; every failure in message construction,
\* connection, TLS upgrade, login or submission makes it return False; a
\* failure to read an attachment does not: True is returned exactly when
\* nothing but attachment reads failed, and only after a completed submission.
C4_SendNeverRaises ==
    SendReturned =>
        /\ send_result \in {"True", "False"}
        /\ (~config.joinable \/ fault # "none") => send_result = "False"
        /\ (config.joinable /\ fault = "none") => send_result = "True"
        /\ send_result = "True" => Submitted

\* the TLS upgrade failed on a message with two attachments: send returned False
C4_Witness ==
    /\ send_result = "False" /\ fault = "starttls" /\ config.joinable
    /\ Len(att_arg) = 2 /\ outbox = << >>

\* the attachments whose read succeeds, in list order
Kept == SelectSeq(att_arg, LAMBDA path : path \in fs)

\* C5: an attachment whose read fails is absent from the message, the
\* attachments whose read succeeds are attached in list order after the body
\* part, the body part is the body given, the message is still handed to the
\* SMTP session, and the return value depends on the session alone.
C5_UnreadableAttachmentSkipped ==
    (SendReturned /\ config.joinable) =>
        /\ Len(message.parts) = 1 + Len(Kept)
        /\ message.parts[1].kind \in {"html", "plain"}
        /\ message.parts[1].content = html_report
        /\ \A i \in 1..Len(Kept) : message.parts[1 + i] = AttachmentPart(Kept[i])
        /\ Mem(smtp_log, "connect")
        /\ fault \in {"none", "quit"} => Submitted
        /\ (send_result = "True") <=> (fault = "none")

\* the first of two attachments cannot be read, the second can: the message
\* has the body and the second attachment, and send returned True
C5_Witness ==
    /\ send_result = "True"
    /\ Len(att_arg) = 2 /\ att_arg[1] \notin fs /\ att_arg[2] \in fs
    /\ Len(message.parts) = 2 /\ Len(outbox) = 1

Rank(cmd) ==
    CASE cmd = "connect" -> 1
      [] cmd = "starttls" -> 2
      [] cmd = "login" -> 3
      [] cmd = "sendmail" -> 4
      [] OTHER -> 5

\* C9: the commands of a session are issued in the order connect, STARTTLS,
\* login, sendmail, each at most once; login is issued only when STARTTLS
\* succeeded, sendmail only when login succeeded; the server receives at most
\* one message, addressed to the whole recipient list.
C9_SmtpOrder ==
    /\ \A i, j \in 1..Len(smtp_log) : i < j => Rank(smtp_log[i]) < Rank(smtp_log[j])
    /\ Mem(smtp_log, "starttls") => (Mem(smtp_log, "connect") /\ fault # "connect")
    /\ Mem(smtp_log, "login") =>
          (Mem(smtp_log, "starttls") /\ fault \notin {"connect", "starttls"})
    /\ Mem(smtp_log, "sendmail") =>
          (Mem(smtp_log, "login") /\ fault \notin {"connect", "starttls", "login", "as_string"})
    /\ Len(outbox) <= 1
    /\ outbox # << >> =>
          (Mem(smtp_log, "sendmail") /\ outbox[1].to = config.recipients
             /\ outbox[1].message = message)
    /\ (SendReturned /\ config.joinable /\ fault = "none") =>
          smtp_log = <<"connect", "starttls", "login", "sendmail", "quit">>

\* the login was refused: STARTTLS and login were issued, sendmail was not
C9_Witness ==
    /\ fault = "login" /\ Mem(smtp_log, "login") /\ ~Mem(smtp_log, "sendmail")
    /\ outbox = << >> /\ send_result = "False"

(***************************************************************************)
(* Properties of the collect methods (checked under SpecCall).             *)
(***************************************************************************)
\* a percent num/den lies in [0, 100]; it is 0
InRange(p) == p.den > 0 /\ 0 <= p.num /\ p.num <= 100 * p.den
IsZero(p) == p.den > 0 /\ p.num = 0

\* the samples a query handed to its collect method
Samples(resp) == IF resp.status = "ok" THEN resp.body.result ELSE << >>

\* a step that is a call of the collect method `step'
Collects(step) == pc = "idle" /\ pc' = "returned" /\ trace' = <<Entry(step, 0, inst')>>

\* the records of `after' from position Len(before) + 1 on are percent
\* records of the pairs (capacity sample, free sample) at the same positions
PercentsZeroGuarded(before, after) ==
    \A j \in 1..(Len(after) - Len(before)) :
        LET p == after[Len(before) + j].usage_percent
            capacity == Samples(q1')[j].value.n
        IN  capacity = 0 => IsZero(p)

PercentsInRange(before, after) ==
    \A j \in 1..(Len(after) - Len(before)) :
        InRange(after[Len(before) + j].usage_percent)

PercentsInRangeForValidPairs(before, after) ==
    \A j \in 1..(Len(after) - Len(before)) :
        LET p == after[Len(before) + j].usage_percent
            capacity == Samples(q1')[j].value.n
            unused == Samples(q2')[j].value.n
        IN  (0 <= unused /\ unused <= capacity) => InRange(p)

\* C7 (as claimed): every record appended to the disk list and to the memory
\* list has a usage percent within [0, 100], which is 0 when the capacity
\* sample is 0, whatever the two sample values are.
C7_PercentAlwaysInRange ==
    [][ /\ Collects("disk") =>
            (PercentsInRange(disk_list, disk_list')
               /\ PercentsZeroGuarded(disk_list, disk_list'))
        /\ Collects("mem") =>
            (PercentsInRange(mem_list, mem_list')
               /\ PercentsZeroGuarded(mem_list, mem_list'))
     ]_vars

\* C7 (amended): every record appended to the disk list and to the memory
\* list has a usage percent that is 0 when the capacity sample is 0, and that
\* lies within [0, 100] when the free (available) sample lies between 0 and
\* the capacity sample.
C7_PercentInRangeForValidPairs ==
    [][ /\ Collects("disk") =>
            (PercentsInRangeForValidPairs(disk_list, disk_list')
               /\ PercentsZeroGuarded(disk_list, disk_list'))
        /\ Collects("mem") =>
            (PercentsInRangeForValidPairs(mem_list, mem_list')
               /\ PercentsZeroGuarded(mem_list, mem_list'))
     ]_vars

\* a disk collection appended a record for a filesystem of size 0 (percent 0)
\* and one for a filesystem of size 1024 with 512 free (percent 50)
C7_Witness ==
    /\ pc = "returned" /\ trace = <<Entry("disk", 0, inst)>> /\ exc.state = "none"
    /\ Len(Samples(q1)) = 2 /\ Len(Samples(q2)) = 2
    /\ Samples(q1)[1].value.n = 0 /\ Samples(q1)[2].value.n = 1024
    /\ Samples(q2)[2].value.n = 512
    /\ Len(disk_list) >= 2
    /\ disk_list[Len(disk_list) - 1].usage_percent = [num |-> 0, den |-> 1]
    /\ disk_list[Len(disk_list)].usage_percent = [num |-> 51200, den |-> 1024]

\* the record a collect method builds from the samples a and b for `instance'
BuiltFrom(step, rec, instance, a, b) ==
    /\ rec.instance = instance
    /\ CASE step = "disk" ->
              /\ rec.device = a.metric.device
              /\ rec.mount_point = a.metric.mountpoint
              /\ rec.size = FormatBytes(a.value.n)
              /\ rec.free = FormatBytes(b.value.n)
              /\ rec.used = FormatBytes(a.value.n - b.value.n)
         [] step = "cpu" ->
              /\ rec.usage_percent = a.value.n
              /\ rec.core_num = b.value.n
         [] step = "mem" ->
              /\ rec.total = FormatBytes(a.value.n)
              /\ rec.used = FormatBytes(a.value.n - b.value.n)
         [] OTHER ->
              /\ rec.download = FormatBitsPerSecond(a.value.n)
              /\ rec.upload = FormatBitsPerSecond(b.value.n)

Shorter(a, b) == IF Len(a) <= Len(b) THEN Len(a) ELSE Len(b)

\* the call kept the records of `before' and appended at most one record per
\* pair of samples, the j-th from the j-th samples of both queries; exactly
\* one per pair when it returned normally
AppendsPairs(step, before, after) ==
    LET a == Samples(q1')
        b == Samples(q2')
        k == Len(after) - Len(before)
    IN  /\ 0 <= k /\ k <= Shorter(a, b)
        /\ SubSeq(after, 1, Len(before)) = before
        /\ \A j \in 1..k : BuiltFrom(step, after[Len(before) + j], inst', a[j], b[j])
        /\ exc'.state = "none" => k = Shorter(a, b)

\* C10: a collect call that returns appends exactly min(m, n) records to its
\* list, m and n being the numbers of samples of its two queries; the j-th
\* appended record is built from the j-th sample of the first query and the
\* j-th sample of the second, whatever their labels, and carries the
\* instance the call was given; nothing is appended when a query returned no
\* sample, and the other lists are unchanged.
C10_PositionalPairing ==
    [][ /\ Collects("disk") =>
            (AppendsPairs("disk", disk_list, disk_list')
               /\ UNCHANGED <<node_list, cpu_list, mem_list, net_list>>)
        /\ Collects("cpu") =>
            (AppendsPairs("cpu", cpu_list, cpu_list')
               /\ UNCHANGED <<node_list, disk_list, mem_list, net_list>>)
        /\ Collects("mem") =>
            (AppendsPairs("mem", mem_list, mem_list')
               /\ UNCHANGED <<node_list, disk_list, cpu_list, net_list>>)
        /\ Collects("net") =>
            (AppendsPairs("net", net_list, net_list')
               /\ UNCHANGED <<node_list, disk_list, cpu_list, mem_list>>)
     ]_vars

\* a disk collection for B on a list holding an earlier record: two size
\* samples, one free sample of another device, one record appended
C10_Witness ==
    /\ pc = "returned" /\ trace = <<Entry("disk", 0, "B")>> /\ exc.state = "none"
    /\ Len(Samples(q1)) = 2 /\ Len(Samples(q2)) = 1
    /\ Samples(q1)[1].metric.device = "sda" /\ Samples(q2)[1].metric.device = "sdb"
    /\ Len(disk_list) = 2
    /\ disk_list[2].device = "sda" /\ disk_list[2].instance = "B"

=============================================================================
